---- MODULE Spec2Model ----
(***************************************************************************)
(* Model of pkg/strategy/controller.go of the jaeger-operator: the         *)
(* normalization of a Jaeger custom resource (normalize and its helpers)   *)
(* and the selection of the deployment strategy (For).                     *)
(*                                                                         *)
(* A Go string is a TLA+ string, except the documentation URL, which is a  *)
(* sequence of characters because the code splices it into JSON text.      *)
(* A Go pointer (to bool, int, ResourceRequirements) is a sequence of      *)
(* length 0 (nil) or 1 (the value pointed to).  A Go map is a function     *)
(* whose DOMAIN is the set of keys present.                                *)
(***************************************************************************)
EXTENDS Integers, Sequences, FiniteSets, TLC

VARIABLES
    jaeger,   \* the *v1.Jaeger object the caller owns; mutated in place
    prev,     \* the object as it was on entry to the latest call
    viper,    \* the process configuration read through viper.GetString
    passes,   \* how many times the object went through normalize
    last,     \* the latest operation: "init", "normalize" or "For"
    secrets,  \* the secrets argument of the latest call of For
    handle    \* the strategy returned by the latest call of For

vars == <<jaeger, prev, viper, passes, last, secrets, handle>>

---------------------------------------------------------------------------
(* Bounds of the model *)

\* number of calls of normalize / For on one object
MaxPasses == 2
\* length of the configured documentation URL, in characters
MaxUrlLen == 2

---------------------------------------------------------------------------
(* Go values *)

Nil == <<>>
Ptr(v) == <<v>>

EmptyMap == [k \in {} |-> ""]

\* m[k] = v on a Go map
Put(m, k, v) == [x \in (DOMAIN m) \cup {k} |-> IF x = k THEN v ELSE m[x]]

\* m[k] on a map[string]string: the zero value "" for a missing key
Get(m, k) == IF k \in DOMAIN m THEN m[k] ELSE ""

\* Lower-casing of the strings the model draws its inputs from
ToLower(s) ==
    CASE s = "Memory" -> "memory"
      [] s = "MEMORY" -> "memory"
      [] s = "Badger" -> "badger"
      [] s = "Elasticsearch" -> "elasticsearch"
      [] s = "Cassandra" -> "cassandra"
      [] s = "Kafka" -> "kafka"
      [] s = "TRUE" -> "true"
      [] s = "True" -> "true"
      [] OTHER -> s

\* strings.EqualFold
EqualFold(a, b) == ToLower(a) = ToLower(b)

\* values of a free-form option table (decoded JSON), a record whose one
\* field names the type
JBool(b) == [bool |-> b]
JStr(s) == [string |-> s]
JNum(n) == [number |-> n]
JMap(m) == [map |-> m]
JArr(a) == [array |-> a]
JNull == [null |-> <<>>]
\* val.(map[string]interface{})
IsMap(val) == "map" \in DOMAIN val

---------------------------------------------------------------------------
(* Constants of package v1 and of this file *)

DeploymentStrategyDeprecatedAllInOne == "all-in-one"
DeploymentStrategyAllInOne == "allInOne"
DeploymentStrategyStreaming == "streaming"
DeploymentStrategyProduction == "production"

IngressSecurityNoneExplicit == "none"
IngressSecurityOAuthProxy == "oauth-proxy"

FlagPlatformOpenShift == "openshift"

esCertGenerationScript == "./scripts/cert_generation.sh"

defaultEsMemory == "16Gi"
defaultEsCPURequest == "1"

ZeroRedundancy == "ZeroRedundancy"
SingleRedundancy == "SingleRedundancy"

\* characters of a documentation URL that matter to JSON
QUOTE == "\""
BACKSLASH == "\\"

---------------------------------------------------------------------------
(* Collaborators outside this file *)

\* storage.ValidTypes
ValidTypes == <<"memory", "kafka", "elasticsearch", "cassandra", "badger">>

\* cronjob.SupportedStorage
SupportedStorage(storage) ==
    EqualFold(storage, "elasticsearch") \/ EqualFold(storage, "cassandra")

\* v1.Options.Map
Map(options) == options

\* storage.ShouldDeployElasticsearch
ShouldDeployElasticsearch(spec) ==
    /\ EqualFold(spec.Type, "elasticsearch")
    /\ "es.server-urls" \notin DOMAIN Map(spec.Options)

\* util.ImageName
ImageName(vp, image, param) == IF image = "" THEN vp[param] ELSE image

\* v1.FreeForm: no options at all, JSON text that is not an object, or an
\* object with its decoded table
NilFreeForm == [json |-> "nil", m |-> EmptyMap]
MalformedFreeForm == [json |-> "malformed", m |-> EmptyMap]
NewFreeForm(o) == [json |-> "object", m |-> o]
IsEmpty(o) == o.json = "nil" \/ (o.json = "object" /\ DOMAIN o.m = {})
GetMapErr(o) == o.json # "object"
GetMap(o) == o.m

---------------------------------------------------------------------------
(* controller.go: the helpers of normalize *)

\* variant: the comparison with the catalog is by ==, not EqualFold
unknownStorage_Exact(typ) ==
    ~ \E i \in 1..Len(ValidTypes) : typ = ValidTypes[i]

\* a storage type that none of storage.ValidTypes() equals, letter case aside
unknownStorage(typ) ==
    ~ \E i \in 1..Len(ValidTypes) : EqualFold(typ, ValidTypes[i])

\* variant: the comparison is by ==, not EqualFold
distributedStorage_CaseSensitive(storage) ==
    storage # "memory" /\ storage # "badger"

distributedStorage(storage) ==
    ~EqualFold(storage, "memory") /\ ~EqualFold(storage, "badger")

\* variant: the CA path is not looked at
tlsIsNotEnabled_NoCa(sFlagsMap) ==
    LET tlsEnabled == Get(sFlagsMap, "es.tls")
        tlsSkipHost == Get(sFlagsMap, "es.tls.skip-host-verify")
    IN  /\ ~EqualFold(tlsEnabled, "true")
        /\ ~EqualFold(tlsSkipHost, "true")

tlsIsNotEnabled(sFlagsMap) ==
    LET tlsEnabled == Get(sFlagsMap, "es.tls")
        tlsSkipHost == Get(sFlagsMap, "es.tls.skip-host-verify")
        tlsCa == Get(sFlagsMap, "es.tls.ca")
    IN  /\ ~EqualFold(tlsEnabled, "true")
        /\ ~EqualFold(tlsSkipHost, "true")
        /\ EqualFold(tlsCa, "")

normalizeSparkDependencies(vp, spec) ==
    LET sFlagsMap == Map(spec.Options)
        s1 == IF /\ SupportedStorage(spec.Type)
                 /\ spec.Dependencies.Enabled = Nil
                 /\ ~ShouldDeployElasticsearch(spec)
                 /\ tlsIsNotEnabled(sFlagsMap)
              THEN [spec EXCEPT !.Dependencies.Enabled = Ptr(TRUE)]
              ELSE spec
        s2 == IF s1.Dependencies.Image = ""
              THEN [s1 EXCEPT !.Dependencies.Image =
                                  vp["jaeger-spark-dependencies-image"]]
              ELSE s1
    IN  IF s2.Dependencies.Schedule = ""
        THEN [s2 EXCEPT !.Dependencies.Schedule = "55 23 * * *"]
        ELSE s2

normalizeIndexCleaner(vp, spec, storage) ==
    LET s1 == IF storage = "elasticsearch" /\ spec.Enabled = Nil
              THEN [spec EXCEPT !.Enabled = Ptr(TRUE)]
              ELSE spec
        s2 == [s1 EXCEPT !.Image =
                  ImageName(vp, s1.Image, "jaeger-es-index-cleaner-image")]
        s3 == IF s2.Schedule = ""
              THEN [s2 EXCEPT !.Schedule = "55 23 * * *"]
              ELSE s2
    IN  IF s3.NumberOfDays = Nil
        THEN [s3 EXCEPT !.NumberOfDays = Ptr(7)]
        ELSE s3

normalizeElasticsearch(spec) ==
    LET s1 == IF spec.NodeCount = 0 THEN [spec EXCEPT !.NodeCount = 3] ELSE spec
        s2 == IF s1.RedundancyPolicy = ""
              THEN IF s1.NodeCount = 1
                   THEN [s1 EXCEPT !.RedundancyPolicy = ZeroRedundancy]
                   ELSE [s1 EXCEPT !.RedundancyPolicy = SingleRedundancy]
              ELSE s1
    IN  IF s2.Resources = Nil
        THEN [s2 EXCEPT !.Resources = Ptr(
                 [Limits |-> [memory |-> defaultEsMemory],
                  Requests |-> [memory |-> defaultEsMemory,
                                cpu |-> defaultEsCPURequest]])]
        ELSE s2

normalizeRollover(vp, spec) ==
    LET s1 == [spec EXCEPT !.Image =
                  ImageName(vp, spec.Image, "jaeger-es-rollover-image")]
    IN  IF s1.Schedule = ""
        THEN [s1 EXCEPT !.Schedule = "*/30 * * * *"]
        ELSE s1

\* variant: an explicit archiveEnabled is not respected
enableArchiveButton_Overwrite(uiOpts, sOpts) ==
    IF \/ EqualFold(Get(sOpts, "es-archive.enabled"), "true")
       \/ EqualFold(Get(sOpts, "cassandra-archive.enabled"), "true")
    THEN Put(uiOpts, "archiveEnabled", JBool(TRUE))
    ELSE uiOpts

enableArchiveButton(uiOpts, sOpts) ==
    IF "archiveEnabled" \notin DOMAIN uiOpts
    THEN IF \/ EqualFold(Get(sOpts, "es-archive.enabled"), "true")
            \/ EqualFold(Get(sOpts, "cassandra-archive.enabled"), "true")
         THEN Put(uiOpts, "archiveEnabled", JBool(TRUE))
         ELSE uiOpts
    ELSE uiOpts

disableDependenciesTab(uiOpts, storage, depsEnabled) ==
    IF EqualFold(storage, "memory")
       \/ (depsEnabled # Nil /\ depsEnabled[1] = TRUE)
    THEN uiOpts
    ELSE IF "dependencies" \in DOMAIN uiOpts
            /\ ~IsMap(uiOpts["dependencies"])
         THEN uiOpts    \* the type does not match
         ELSE LET deps == IF "dependencies" \in DOMAIN uiOpts
                          THEN uiOpts["dependencies"].map
                          ELSE EmptyMap
              IN  IF "menuEnabled" \notin DOMAIN deps
                  THEN Put(uiOpts, "dependencies",
                           JMap(Put(deps, "menuEnabled", JBool(FALSE))))
                  ELSE uiOpts

\* fmt.Sprintf of the menu template: the text is fixed except for the
\* contents of the one string literal the URL is spliced into, unescaped
menuStr(docURL) == [urlLiteral |-> docURL]

\* encoding/json reading that string literal: raw is what is left of the
\* URL, followed in the text by the closing quote and the rest of the
\* template; acc is the string decoded so far
RECURSIVE scanString(_, _)
scanString(raw, acc) ==
    IF raw = <<>>
    THEN [ok |-> TRUE, s |-> acc]
    ELSE IF Head(raw) = QUOTE
    THEN \* the literal ends here and the text after it is not JSON
         [ok |-> FALSE, s |-> <<>>]
    ELSE IF Head(raw) = BACKSLASH
    THEN IF Len(raw) >= 2 /\ raw[2] \in {QUOTE, BACKSLASH}
         THEN scanString(SubSeq(raw, 3, Len(raw)), Append(acc, raw[2]))
         ELSE \* an invalid escape, or one that swallows the closing quote
              [ok |-> FALSE, s |-> <<>>]
    ELSE scanString(Tail(raw), Append(acc, Head(raw)))

\* json.Unmarshal([]byte(menuStr), &menuArray), its error dropped: text
\* that is not valid JSON leaves menuArray as it was
Unmarshal(text, menuArray) ==
    LET lit == scanString(text.urlLiteral, <<>>)
    IN  IF lit.ok
        THEN << JMap([label |-> JStr("About"),
                      items |-> JArr(<< JMap([label |-> JStr("Documentation"),
                                              url |-> JStr(lit.s)]) >>)]),
                JMap([label |-> JStr("Log Out"),
                      url |-> JStr("/oauth/sign_in"),
                      anchorTarget |-> JStr("_self")]) >>
        ELSE menuArray

enableLogOut(vp, uiOpts, spec) ==
    IF \/ (spec.Ingress.Enabled # Nil /\ spec.Ingress.Enabled[1] = FALSE)
       \/ spec.Ingress.Security # IngressSecurityOAuthProxy
    THEN uiOpts
    ELSE IF "menu" \in DOMAIN uiOpts
    THEN uiOpts
    ELSE LET docURL == vp["documentation-url"]
             menuArray == <<JNull, JNull>>
         IN  Put(uiOpts, "menu", JArr(Unmarshal(menuStr(docURL), menuArray)))

normalizeUI(vp, spec) ==
    LET uiOpts == IF ~IsEmpty(spec.UI.Options) /\ ~GetMapErr(spec.UI.Options)
                  THEN GetMap(spec.UI.Options)
                  ELSE EmptyMap
        u1 == enableArchiveButton(uiOpts, Map(spec.Storage.Options))
        u2 == disableDependenciesTab(u1, spec.Storage.Type,
                                     spec.Storage.Dependencies.Enabled)
        u3 == enableLogOut(vp, u2, spec)
    IN  IF Cardinality(DOMAIN u3) > 0
        THEN [spec EXCEPT !.UI.Options = NewFreeForm(u3)]
        ELSE spec

---------------------------------------------------------------------------
(* controller.go: normalize, stage by stage *)

\* "we need a name!"
normalizeName(j) ==
    IF j.Name = "" THEN [j EXCEPT !.Name = "my-jaeger"] ELSE j

\* "normalize the storage type"
normalizeStorageType(j) ==
    LET j1 == IF j.Spec.Storage.Type = ""
              THEN [j EXCEPT !.Spec.Storage.Type = "memory"]
              ELSE j
    IN  IF unknownStorage(j1.Spec.Storage.Type)
        THEN [j1 EXCEPT !.Spec.Storage.Type = "memory"]
        ELSE j1

\* "normalize the deployment strategy"
normalizeStrategy(j) ==
    IF /\ j.Spec.Strategy # DeploymentStrategyProduction
       /\ j.Spec.Strategy # DeploymentStrategyStreaming
    THEN [j EXCEPT !.Spec.Strategy = DeploymentStrategyAllInOne]
    ELSE j

\* "check for incompatible options"
checkIncompatible(j) ==
    IF /\ ~distributedStorage(j.Spec.Storage.Type)
       /\ j.Spec.Strategy # DeploymentStrategyAllInOne
    THEN [j EXCEPT !.Spec.Strategy = DeploymentStrategyAllInOne]
    ELSE j

\* variant: the OAuth proxy only when the security was left unset
normalizeIngressSecurity_OnlyUnset(vp, j) ==
    IF /\ vp["platform"] = FlagPlatformOpenShift
       /\ j.Spec.Ingress.Security = ""
    THEN [j EXCEPT !.Spec.Ingress.Security = IngressSecurityOAuthProxy]
    ELSE [j EXCEPT !.Spec.Ingress.Security = IngressSecurityNoneExplicit]

\* the ingress security: OAuth proxy on OpenShift unless 'none' was asked
normalizeIngressSecurity(vp, j) ==
    IF /\ vp["platform"] = FlagPlatformOpenShift
       /\ j.Spec.Ingress.Security # IngressSecurityNoneExplicit
    THEN [j EXCEPT !.Spec.Ingress.Security = IngressSecurityOAuthProxy]
    ELSE [j EXCEPT !.Spec.Ingress.Security = IngressSecurityNoneExplicit]

\* variant: the incompatible options are checked before the storage type
\* is normalized
normalize_CheckBeforeStorageType(vp, j) ==
    LET j1 == normalizeName(j)
        j2 == normalizeStrategy(j1)
        j3 == checkIncompatible(j2)
        j4 == normalizeStorageType(j3)
        j5 == normalizeIngressSecurity(vp, j4)
        j6 == [j5 EXCEPT !.Spec.Storage = normalizeSparkDependencies(vp, @)]
        j7 == [j6 EXCEPT !.Spec.Storage.EsIndexCleaner =
                  normalizeIndexCleaner(vp, @, j6.Spec.Storage.Type)]
        j8 == [j7 EXCEPT !.Spec.Storage.Elasticsearch =
                  normalizeElasticsearch(@)]
        j9 == [j8 EXCEPT !.Spec.Storage.EsRollover = normalizeRollover(vp, @)]
    IN  [j9 EXCEPT !.Spec = normalizeUI(vp, @)]

\* variant: the UI options are normalized before the dependencies
normalize_UIBeforeDependencies(vp, j) ==
    LET j1 == normalizeName(j)
        j2 == normalizeStorageType(j1)
        j3 == normalizeStrategy(j2)
        j4 == checkIncompatible(j3)
        j5 == normalizeIngressSecurity(vp, j4)
        j6 == [j5 EXCEPT !.Spec = normalizeUI(vp, @)]
        j7 == [j6 EXCEPT !.Spec.Storage = normalizeSparkDependencies(vp, @)]
        j8 == [j7 EXCEPT !.Spec.Storage.EsIndexCleaner =
                  normalizeIndexCleaner(vp, @, j7.Spec.Storage.Type)]
        j9 == [j8 EXCEPT !.Spec.Storage.Elasticsearch =
                  normalizeElasticsearch(@)]
    IN  [j9 EXCEPT !.Spec.Storage.EsRollover = normalizeRollover(vp, @)]

normalize(vp, j) ==
    LET j1 == normalizeName(j)
        j2 == normalizeStorageType(j1)
        j3 == normalizeStrategy(j2)
        j4 == checkIncompatible(j3)
        j5 == normalizeIngressSecurity(vp, j4)
        j6 == [j5 EXCEPT !.Spec.Storage = normalizeSparkDependencies(vp, @)]
        j7 == [j6 EXCEPT !.Spec.Storage.EsIndexCleaner =
                  normalizeIndexCleaner(vp, @, j6.Spec.Storage.Type)]
        j8 == [j7 EXCEPT !.Spec.Storage.Elasticsearch =
                  normalizeElasticsearch(@)]
        j9 == [j8 EXCEPT !.Spec.Storage.EsRollover = normalizeRollover(vp, @)]
    IN  [j9 EXCEPT !.Spec = normalizeUI(vp, @)]

---------------------------------------------------------------------------
(* controller.go: For *)

NoHandle == [kind |-> "none", CertScript |-> "", Secrets |-> <<>>]
newAllInOneStrategy == [kind |-> "allInOne", CertScript |-> "", Secrets |-> <<>>]
newStreamingStrategy == [kind |-> "streaming", CertScript |-> "", Secrets |-> <<>>]
newProductionStrategy(es) ==
    [kind |-> "production", CertScript |-> es.CertScript, Secrets |-> es.Secrets]

\* the rewrite of the deprecated strategy name, before normalize
rewriteDeprecated(j) ==
    IF j.Spec.Strategy = DeploymentStrategyDeprecatedAllInOne
    THEN [j EXCEPT !.Spec.Strategy = DeploymentStrategyAllInOne]
    ELSE j

\* variant: the streaming strategy is not looked for
chooseStrategy_NoStreaming(j, secs) ==
    IF j.Spec.Strategy = DeploymentStrategyAllInOne
    THEN newAllInOneStrategy
    ELSE newProductionStrategy(
             [CertScript |-> esCertGenerationScript, Secrets |-> secs])

\* the choice of the strategy, after normalize
chooseStrategy(j, secs) ==
    IF j.Spec.Strategy = DeploymentStrategyAllInOne
    THEN newAllInOneStrategy
    ELSE IF j.Spec.Strategy = DeploymentStrategyStreaming
    THEN newStreamingStrategy
    ELSE newProductionStrategy(
             [CertScript |-> esCertGenerationScript, Secrets |-> secs])

---------------------------------------------------------------------------
(* The inputs: Jaeger objects as a user may write them, and process        *)
(* configurations                                                          *)

StorageTypes == {"", "memory", "Memory", "badger", "Badger", "elasticsearch",
                 "Elasticsearch", "cassandra", "kafka", "bogus"}
Strategies == {"", "allInOne", "all-in-one", "production", "streaming", "bogus"}
BoolPtrs == {Nil, Ptr(TRUE), Ptr(FALSE)}
Securities == {"", "none", "oauth-proxy", "bogus"}
Platforms == {"openshift", "kubernetes", ""}
SecretLists == {<<>>, <<"es-secret">>}
Chars == {"a", QUOTE, BACKSLASH}
DocURLs == UNION {[1..n -> Chars] : n \in 0..MaxUrlLen}

\* a key left out of an option table
AbsentStr == "<absent>"
Absent == [absent |-> <<>>]
MkOptions(f) == [k \in {x \in DOMAIN f : f[x] # AbsentStr} |-> f[k]]
MkTable(f) == [k \in {x \in DOMAIN f : "absent" \notin DOMAIN f[x]} |-> f[k]]

TlsOptions ==
    { MkOptions(("es.tls" :> a) @@ ("es.tls.skip-host-verify" :> b)
                @@ ("es.tls.ca" :> c) @@ ("es.server-urls" :> d)) :
        a \in {AbsentStr, "true", "TRUE", "false"},
        b \in {AbsentStr, "true"},
        c \in {AbsentStr, "", "/ca.crt"},
        d \in {AbsentStr, "http://elasticsearch:9200"} }

ArchiveOptions ==
    { EmptyMap,
      "es-archive.enabled" :> "True",
      "es-archive.enabled" :> "false",
      ("cassandra-archive.enabled" :> "true") @@ ("es.server-urls" :> "http://es") }

UIArchive == {Absent, JBool(TRUE), JBool(FALSE)}
UIDependencies ==
    { Absent, JStr("off"), JMap(EmptyMap),
      JMap([menuEnabled |-> JBool(TRUE)]),
      JMap([menuEnabled |-> JBool(FALSE)]),
      JMap([dagMaxNumServices |-> JNum(200)]) }
UIMenu == {Absent, JArr(<< JMap([label |-> JStr("Mine")]) >>)}
UITracking == {Absent, JMap([gaID |-> JStr("UA-000000-2")])}

UITables ==
    { MkTable([archiveEnabled |-> a, dependencies |-> d, menu |-> m,
               tracking |-> t]) :
        a \in UIArchive, d \in UIDependencies, m \in UIMenu, t \in UITracking }

FreeForms == {NilFreeForm, MalformedFreeForm} \cup {NewFreeForm(t) : t \in UITables}

CustomResources == Ptr([Limits |-> [memory |-> "2Gi"], Requests |-> EmptyMap])

\* the object with every field at its Go zero value, but for the name
ZeroJaeger ==
    [Name |-> "simplest",
     Spec |-> [Strategy |-> "",
               Storage |-> [Type |-> "",
                            Options |-> EmptyMap,
                            Dependencies |-> [Enabled |-> Nil, Image |-> "",
                                              Schedule |-> ""],
                            EsIndexCleaner |-> [Enabled |-> Nil, Image |-> "",
                                                Schedule |-> "",
                                                NumberOfDays |-> Nil],
                            Elasticsearch |-> [NodeCount |-> 0,
                                               RedundancyPolicy |-> "",
                                               Resources |-> Nil],
                            EsRollover |-> [Image |-> "", Schedule |-> ""]],
               Ingress |-> [Enabled |-> Nil, Security |-> ""],
               UI |-> [Options |-> NilFreeForm]]]

Config(platform, docURL, image) ==
    ("platform" :> platform) @@ ("documentation-url" :> docURL)
    @@ ("jaeger-spark-dependencies-image" :> image)
    @@ ("jaeger-es-index-cleaner-image" :> image)
    @@ ("jaeger-es-rollover-image" :> image)

\* name, storage type, strategy and the index cleaner
TopologyInputs ==
    { [ZeroJaeger EXCEPT !.Name = n, !.Spec.Storage.Type = typ,
                         !.Spec.Strategy = st,
                         !.Spec.Storage.EsIndexCleaner =
                             [Enabled |-> e, Image |-> i, Schedule |-> sc,
                              NumberOfDays |-> d]] :
        n \in {"", "simplest"}, typ \in StorageTypes, st \in Strategies,
        e \in BoolPtrs, i \in {"", "cleaner:1"}, sc \in {"", "5 4 * * *"},
        d \in {Nil, Ptr(3)} }

\* the Elasticsearch, rollover and dependencies subsections
SubsectionInputs ==
    { [ZeroJaeger EXCEPT !.Spec.Storage.Type = "elasticsearch",
                         !.Spec.Storage.Elasticsearch =
                             [NodeCount |-> nc, RedundancyPolicy |-> rp,
                              Resources |-> rs],
                         !.Spec.Storage.EsRollover =
                             [Image |-> ri, Schedule |-> rsc],
                         !.Spec.Storage.Dependencies.Image = di,
                         !.Spec.Storage.Dependencies.Schedule = dsc] :
        nc \in {0, 1, 5}, rp \in {"", ZeroRedundancy, "FullRedundancy"},
        rs \in {Nil, CustomResources},
        ri \in {"", "rollover:1"}, rsc \in {"", "0 * * * *"},
        di \in {"", "spark:1"}, dsc \in {"", "0 1 * * *"} }

\* what the dependencies job and the dependencies tab depend on
DependenciesInputs ==
    { [ZeroJaeger EXCEPT !.Spec.Storage.Type = typ,
                         !.Spec.Storage.Options = o,
                         !.Spec.Storage.Dependencies.Enabled = e,
                         !.Spec.UI.Options = ui] :
        typ \in StorageTypes, o \in TlsOptions, e \in BoolPtrs,
        ui \in { NilFreeForm, MalformedFreeForm } \cup
               { NewFreeForm(MkTable([dependencies |-> d])) :
                     d \in UIDependencies } }

\* what the ingress security and the menu depend on
IngressInputs ==
    { [ZeroJaeger EXCEPT !.Spec.Storage.Type = typ,
                         !.Spec.Strategy = DeploymentStrategyProduction,
                         !.Spec.Ingress = [Enabled |-> e, Security |-> sec],
                         !.Spec.UI.Options = ui] :
        typ \in {"", "elasticsearch"}, e \in BoolPtrs, sec \in Securities,
        ui \in { NilFreeForm, MalformedFreeForm } \cup
               { NewFreeForm(MkTable([menu |-> m, tracking |-> t])) :
                     m \in UIMenu, t \in UITracking } }

\* every table of UI options, under what its derived keys depend on
UIInputs ==
    { [ZeroJaeger EXCEPT !.Spec.Storage.Type = typ,
                         !.Spec.Storage.Options = o,
                         !.Spec.Storage.Dependencies.Enabled = de,
                         !.Spec.Ingress = [Enabled |-> ie, Security |-> sec],
                         !.Spec.UI.Options = ui] :
        typ \in {"memory", "elasticsearch", "Cassandra"},
        o \in ArchiveOptions, de \in BoolPtrs, ie \in BoolPtrs,
        sec \in {"", "none"}, ui \in FreeForms }

---------------------------------------------------------------------------
(* The state machine *)

Init ==
    /\ \/ /\ jaeger \in TopologyInputs
          /\ viper = Config("kubernetes", <<"a">>, "")
       \/ /\ jaeger \in SubsectionInputs
          /\ \E image \in {"", "default:latest"} :
                 viper = Config("kubernetes", <<"a">>, image)
       \/ /\ jaeger \in DependenciesInputs
          /\ viper = Config("kubernetes", <<"a">>, "")
       \/ /\ jaeger \in IngressInputs
          /\ \E platform \in Platforms, docURL \in DocURLs :
                 viper = Config(platform, docURL, "")
       \/ /\ jaeger \in UIInputs
          /\ \E platform \in {"openshift", "kubernetes"} :
                 viper = Config(platform, <<"a">>, "")
    /\ prev = jaeger
    /\ passes = 0
    /\ last = "init"
    /\ secrets = <<>>
    /\ handle = NoHandle

\* normalize(ctx, jaeger), called on its own
Normalize ==
    /\ passes < MaxPasses
    /\ jaeger' = normalize(viper, jaeger)
    /\ prev' = jaeger
    /\ passes' = passes + 1
    /\ last' = "normalize"
    /\ UNCHANGED <<viper, secrets, handle>>

\* For(ctx, jaeger, secrets)
For ==
    /\ passes < MaxPasses
    /\ \E secs \in SecretLists :
          LET j == normalize(viper, rewriteDeprecated(jaeger))
          IN  /\ jaeger' = j
              /\ secrets' = secs
              /\ handle' = chooseStrategy(j, secs)
    /\ prev' = jaeger
    /\ passes' = passes + 1
    /\ last' = "For"
    /\ UNCHANGED viper

Next == Normalize \/ For

Spec == Init /\ [][Next]_vars

---------------------------------------------------------------------------
(* Properties *)

\* shorthands for the object on entry to the latest call and on return
called == last # "init"
inStorage == prev.Spec.Storage
outStorage == jaeger.Spec.Storage
inUI == prev.Spec.UI.Options
outUI == jaeger.Spec.UI.Options

\* the option table has dependencies.menuEnabled
HasMenuEnabled(o) ==
    /\ o.json = "object"
    /\ "dependencies" \in DOMAIN o.m
    /\ IsMap(o.m["dependencies"])
    /\ "menuEnabled" \in DOMAIN o.m["dependencies"].map

\* C1: normalize is idempotent: a second application to an object that was
\* normalized under the same configuration leaves every field as it is.
C1_Idempotent == passes >= 2 => jaeger = prev

C1_Witness ==
    /\ passes = 2
    /\ last = "normalize"
    /\ outStorage.Dependencies.Enabled = Ptr(TRUE)
    /\ outUI.json = "object"
    /\ "menu" \in DOMAIN outUI.m
    /\ "archiveEnabled" \in DOMAIN outUI.m

\* C2: after normalize a storage type that is memory or badger, letter case
\* aside, comes with the strategy allInOne; production and streaming come
\* only with a distributed storage.
C2_StorageConstrainsStrategy ==
    called =>
        LET local == ToLower(outStorage.Type) \in {"memory", "badger"}
        IN  /\ local => jaeger.Spec.Strategy = DeploymentStrategyAllInOne
            /\ jaeger.Spec.Strategy \in {DeploymentStrategyProduction,
                                         DeploymentStrategyStreaming}
                   => ~local
            /\ jaeger.Spec.Strategy \in {DeploymentStrategyAllInOne,
                                         DeploymentStrategyProduction,
                                         DeploymentStrategyStreaming}

C2_Witness ==
    /\ called
    /\ passes = 1
    /\ prev.Spec.Strategy = DeploymentStrategyProduction
    /\ inStorage.Type = "Badger"
    /\ jaeger.Spec.Strategy = DeploymentStrategyAllInOne

\* C3: after normalize the storage type is in the catalog, letter case
\* aside: an empty or unknown type became "memory", a known one is left as
\* the user wrote it.
C3_StorageTypeKnown ==
    called =>
        LET catalog == {ValidTypes[i] : i \in 1..Len(ValidTypes)}
            known == ToLower(inStorage.Type) \in catalog
        IN  /\ ToLower(outStorage.Type) \in catalog
            /\ ~known => outStorage.Type = "memory"
            /\ known => outStorage.Type = inStorage.Type

C3_Witness ==
    /\ called
    /\ inStorage.Type = "bogus"
    /\ outStorage.Type = "memory"

\* C4: normalize keeps every UI option the user set: each key of the table,
\* and each key of a nested dependencies table, is there afterwards with
\* the value it had.
C4_UIOptionsKept ==
    (called /\ inUI.json = "object") =>
        /\ outUI.json = "object"
        /\ \A k \in DOMAIN inUI.m :
              /\ k \in DOMAIN outUI.m
              /\ IF k = "dependencies" /\ IsMap(inUI.m[k])
                 THEN /\ IsMap(outUI.m[k])
                      /\ \A kk \in DOMAIN inUI.m[k].map :
                            /\ kk \in DOMAIN outUI.m[k].map
                            /\ outUI.m[k].map[kk] = inUI.m[k].map[kk]
                 ELSE outUI.m[k] = inUI.m[k]

C4_Witness ==
    /\ called
    /\ passes = 1
    /\ inUI.json = "object"
    /\ DOMAIN inUI.m = {"archiveEnabled", "dependencies", "menu"}
    /\ inUI.m["archiveEnabled"] = JBool(FALSE)
    /\ ~IsMap(inUI.m["dependencies"])
    /\ EqualFold(Get(inStorage.Options, "es-archive.enabled"), "true")
    /\ inStorage.Type = "elasticsearch"
    /\ inStorage.Dependencies.Enabled = Nil
    /\ prev.Spec.Ingress.Enabled = Nil
    /\ jaeger.Spec.Ingress.Security = IngressSecurityOAuthProxy

\* C5: after normalize the ingress security is none or oauth-proxy, and it
\* is oauth-proxy exactly when the platform is OpenShift and the security
\* on entry was not none.
C5_IngressSecurity ==
    called =>
        /\ jaeger.Spec.Ingress.Security \in {IngressSecurityNoneExplicit,
                                             IngressSecurityOAuthProxy}
        /\ jaeger.Spec.Ingress.Security = IngressSecurityOAuthProxy
              <=> /\ viper["platform"] = "openshift"
                  /\ prev.Spec.Ingress.Security # "none"

C5_Witness ==
    /\ called
    /\ viper["platform"] = "kubernetes"
    /\ prev.Spec.Ingress.Security = IngressSecurityOAuthProxy
    /\ jaeger.Spec.Ingress.Security = IngressSecurityNoneExplicit

\* C6: For returns one strategy, of the kind of
\* the strategy normalize left on the object: all-in-one for the deprecated
\* name, an empty or unknown strategy and any non-distributed storage;
\* production, with the certificate script and the secrets passed in, only
\* for a requested production strategy on a distributed storage.
C6_ForReturnsResolvedStrategy ==
    last = "For" =>
        LET local == ToLower(outStorage.Type) \in {"memory", "badger"}
        IN  /\ handle.kind \in {"allInOne", "streaming", "production"}
            /\ handle.kind = "allInOne"
                  <=> jaeger.Spec.Strategy = DeploymentStrategyAllInOne
            /\ handle.kind = "streaming"
                  <=> jaeger.Spec.Strategy = DeploymentStrategyStreaming
            /\ handle.kind = "production"
                  <=> jaeger.Spec.Strategy = DeploymentStrategyProduction
            /\ prev.Spec.Strategy \in {"all-in-one", "", "bogus", "allInOne"}
                  => handle.kind = "allInOne"
            /\ local => handle.kind = "allInOne"
            /\ handle.kind = "production" =>
                  /\ prev.Spec.Strategy = "production"
                  /\ ~local
                  /\ handle.CertScript = "./scripts/cert_generation.sh"
                  /\ handle.Secrets = secrets

C6_Witness ==
    /\ last = "For"
    /\ passes = 1
    /\ handle.kind = "production"
    /\ handle.Secrets = <<"es-secret">>
    /\ inStorage.Type = "Elasticsearch"

\* the menu enableLogOut is meant to write for a documentation URL
ExpectedMenu(docURL) ==
    JArr(<< JMap([label |-> JStr("About"),
                  items |-> JArr(<< JMap([label |-> JStr("Documentation"),
                                          url |-> JStr(docURL)]) >>)]),
            JMap([label |-> JStr("Log Out"),
                  url |-> JStr("/oauth/sign_in"),
                  anchorTarget |-> JStr("_self")]) >>)

HasMenu(o) == o.json = "object" /\ "menu" \in DOMAIN o.m

\* C7: for UI options without menu, after normalize menu is there exactly
\* when the resolved ingress security is oauth-proxy and the ingress is
\* enabled or unset, and it then is the array of the About entry with the
\* configured documentation URL and the Log Out entry.
C7_MenuWritten ==
    (called /\ ~HasMenu(inUI)) =>
        /\ HasMenu(outUI)
              <=> /\ jaeger.Spec.Ingress.Security = IngressSecurityOAuthProxy
                  /\ prev.Spec.Ingress.Enabled # Ptr(FALSE)
        /\ HasMenu(outUI)
              => outUI.m["menu"] = ExpectedMenu(viper["documentation-url"])

\* C8: for an elasticsearch storage type, in any letter case, and an unset
\* index cleaner flag, normalize enables the index cleaner; retention and
\* schedule get their defaults when unset; explicit values are kept, and
\* for any other storage an unset flag stays unset.
C8_IndexCleaner ==
    called =>
        LET in == inStorage.EsIndexCleaner
            out == outStorage.EsIndexCleaner
            es == EqualFold(inStorage.Type, "elasticsearch")
        IN  /\ (es /\ in.Enabled = Nil) => out.Enabled = Ptr(TRUE)
            /\ (~es /\ in.Enabled = Nil) => out.Enabled = Nil
            /\ in.Enabled # Nil => out.Enabled = in.Enabled
            /\ out.NumberOfDays = IF in.NumberOfDays = Nil THEN Ptr(7)
                                  ELSE in.NumberOfDays
            /\ out.Schedule = IF in.Schedule = "" THEN "55 23 * * *"
                              ELSE in.Schedule

\* C9: normalizeSparkDependencies changes the dependencies flag only from
\* unset to true, and only for a storage that supports the job, with no
\* Elasticsearch to deploy and with no TLS option set.
C9_DependenciesFlag ==
    called =>
        LET in == inStorage.Dependencies.Enabled
            out == outStorage.Dependencies.Enabled
            o == inStorage.Options
            typ == outStorage.Type
        IN  /\ in # Nil => out = in
            /\ out = Ptr(FALSE) => in = Ptr(FALSE)
            /\ out # in =>
                  /\ in = Nil
                  /\ out = Ptr(TRUE)
                  /\ SupportedStorage(typ)
                  /\ ~ShouldDeployElasticsearch([Type |-> typ, Options |-> o])
                  /\ ToLower(Get(o, "es.tls")) # "true"
                  /\ ToLower(Get(o, "es.tls.skip-host-verify")) # "true"
                  /\ Get(o, "es.tls.ca") = ""

C9_Witness ==
    /\ called
    /\ passes = 1
    /\ inStorage.Dependencies.Enabled = Nil
    /\ outStorage.Dependencies.Enabled = Ptr(TRUE)
    /\ outStorage.Type = "elasticsearch"
    /\ Get(inStorage.Options, "es.tls") = "false"

\* C10: for UI options without dependencies.menuEnabled (no dependencies
\* entry, or a nested table without the key), after normalize
\* dependencies.menuEnabled is there, and false, exactly when the resolved
\* storage is not memory and the dependencies flag left by
\* normalizeSparkDependencies is not true; it is never written as true.
C10_DependenciesTab ==
    (/\ called
     /\ ~HasMenuEnabled(inUI)
     /\ (inUI.json = "object" /\ "dependencies" \in DOMAIN inUI.m)
            => IsMap(inUI.m["dependencies"])) =>
        /\ HasMenuEnabled(outUI)
              <=> /\ ToLower(outStorage.Type) # "memory"
                  /\ outStorage.Dependencies.Enabled # Ptr(TRUE)
        /\ HasMenuEnabled(outUI)
              => outUI.m["dependencies"].map["menuEnabled"] = JBool(FALSE)

C10_Witness ==
    /\ called
    /\ passes = 1
    /\ inStorage.Dependencies.Enabled = Nil
    /\ outStorage.Dependencies.Enabled = Ptr(TRUE)
    /\ inUI.json = "object"
    /\ "dependencies" \in DOMAIN inUI.m
    /\ outUI.m["dependencies"] = JMap([dagMaxNumServices |-> JNum(200)])

====
